---------------------------- MODULE Spec2Model ----------------------------
(***************************************************************************)
(* A model of the CloudflareImages client (src/src/index.ts): the batch    *)
(* token state, the routing of every request, and the asynchronous         *)
(* operations of one client instance, each cut at its awaits.              *)
(*                                                                         *)
(* Strings are sequences of character codes, so that JavaScript's          *)
(* truthiness ("" is falsy) and its code-unit string comparison are        *)
(* computed and not assumed.  `string | null` is a record: Null, or        *)
(* Str(s) for a string s.                                                  *)
(***************************************************************************)
EXTENDS Integers, Sequences, FiniteSets, TLC

VARIABLES config, batchToken, now, ops, started, issue

vars == <<config, batchToken, now, ops, started, issue>>

(***************************************************************************)
(* Bounds of the model                                                     *)
(***************************************************************************)
\* the clock runs over 0..MaxClock
MaxClock == 1
\* operations started on the client in one run of the main specification
MaxOps == 3
\* the strings over "/" and "x" given to isValidCustomId have up to MaxIdLen
\* characters
MaxIdLen == 3

(***************************************************************************)
(* Strings                                                                 *)
(***************************************************************************)
Null == [some |-> FALSE, v |-> <<>>]
Str(s) == [some |-> TRUE, v |-> s]

\* JavaScript truthiness of a `string | null`: null and "" are falsy
Truthy(x) == x.some /\ x.v # <<>>

\* a > b on JavaScript strings: by code units, a proper prefix is smaller
RECURSIVE StrGT(_, _)
StrGT(a, b) ==
  IF a = <<>> THEN FALSE
  ELSE IF b = <<>> THEN TRUE
  ELSE IF Head(a) > Head(b) THEN TRUE
  ELSE IF Head(a) < Head(b) THEN FALSE
  ELSE StrGT(Tail(a), Tail(b))

\* character codes
Slash == 47
Hyphen == 45
Digit(d) == 48 + d
IsHex(c) == (c >= 48 /\ c <= 57) \/ (c >= 65 /\ c <= 70) \/ (c >= 97 /\ c <= 102)

\* new Date().toISOString() at clock value t: fixed width, most significant first
ToISOString(t) == <<Digit(t \div 10), Digit(t % 10)>>

(***************************************************************************)
(* The batch token: getBaseUrl, getToken, checkBatchToken                  *)
(***************************************************************************)
RequestLimit == 200

EmptyToken == [token |-> Null, expiresAt |-> Null, requests |-> 0]

GetBaseUrlAlways(cfg, bt, path, isBatchMethod) ==
  IF Truthy(bt.token)
    THEN [host |-> "batch", account |-> <<>>, path |-> path]
    ELSE [host |-> "api", account |-> cfg.accountId, path |-> path]

GetBaseUrl(cfg, bt, path, isBatchMethod) ==
  IF isBatchMethod /\ Truthy(bt.token)
    THEN [host |-> "batch", account |-> <<>>, path |-> path]
    ELSE [host |-> "api", account |-> cfg.accountId, path |-> path]

GetToken(cfg, bt, isBatchMethod) ==
  IF isBatchMethod /\ Truthy(bt.token) THEN bt.token.v ELSE cfg.apiKey

CheckBatchTokenCountOnly(bt, t) ==
  IF Truthy(bt.token) /\ Truthy(bt.expiresAt)
    THEN LET n == bt.requests + 1
         IN  IF n >= RequestLimit
               THEN EmptyToken
               ELSE [bt EXCEPT !.requests = n]
    ELSE bt

CheckBatchTokenLate(bt, t) ==
  IF Truthy(bt.token) /\ Truthy(bt.expiresAt)
    THEN LET n == bt.requests + 1
         IN  IF StrGT(ToISOString(t), bt.expiresAt.v) \/ n > RequestLimit
               THEN EmptyToken
               ELSE [bt EXCEPT !.requests = n]
    ELSE bt

CheckBatchToken(bt, t) ==
  IF Truthy(bt.token) /\ Truthy(bt.expiresAt)
    THEN LET n == bt.requests + 1
         IN  IF StrGT(ToISOString(t), bt.expiresAt.v) \/ n >= RequestLimit
               THEN EmptyToken
               ELSE [bt EXCEPT !.requests = n]
    ELSE bt


(***************************************************************************)
(* isValidCustomId and validateImage                                       *)
(***************************************************************************)
MaxCustomIdLen == 1024
MaxFileSize == 10485760

\* /^[0-9a-fA-F]{8}-[0-9a-fA-F]{4}-[0-9a-fA-F]{4}-[0-9a-fA-F]{4}-[0-9a-fA-F]{12}$/
UuidRegexTest(s) ==
  /\ Len(s) = 36
  /\ \A i \in 1..36 :
       IF i \in {9, 14, 19, 24} THEN s[i] = Hyphen ELSE IsHex(s[i])

IsValidCustomIdLowerCase(s) ==
  IF s = <<>> THEN "EmptyId"
  ELSE IF s[1] = Slash \/ s[Len(s)] = Slash THEN "BoundarySlash"
  ELSE IF UuidRegexTest(s) /\ \A i \in 1..Len(s) : s[i] \notin 65..70 THEN "UuidCollision"
  ELSE IF Len(s) > MaxCustomIdLen THEN "Length"
  ELSE "true"

\* "true", or the error it throws
IsValidCustomId(s) ==
  IF s = <<>> THEN "EmptyId"
  ELSE IF s[1] = Slash \/ s[Len(s)] = Slash THEN "BoundarySlash"
  ELSE IF UuidRegexTest(s) THEN "UuidCollision"
  ELSE IF Len(s) > MaxCustomIdLen THEN "Length"
  ELSE "true"

\* `customId && this.isValidCustomId(customId)`: "skip" (falsy id, nothing
\* appended), "append", or "throw"
CustomIdStepUnchecked(c) == IF ~Truthy(c) THEN "skip" ELSE "append"

CustomIdStep(c) ==
  IF ~Truthy(c) THEN "skip"
  ELSE IF IsValidCustomId(c.v) = "true" THEN "append"
  ELSE "throw"

ValidTypes == {"image/png", "image/jpeg", "image/gif", "image/webp", "image/svg+xml"}

\* TRUE, or FALSE when it throws
ValidateImage(f) == f.size <= MaxFileSize /\ f.type \in ValidTypes

(***************************************************************************)
(* encodeUUID and decodeUUID.  A function that can throw returns           *)
(* [ok |-> FALSE, v |-> <<>>] when it does.                                *)
(***************************************************************************)
Threw == [ok |-> FALSE, v |-> <<>>]
Returned(v) == [ok |-> TRUE, v |-> v]

\* s.replace(/c/g, ""), and s.replace(/c/g, d)
RECURSIVE Strip(_, _)
Strip(s, c) ==
  IF s = <<>> THEN <<>>
  ELSE IF Head(s) = c THEN Strip(Tail(s), c)
  ELSE <<Head(s)>> \o Strip(Tail(s), c)

Replace(s, c, d) == [i \in 1..Len(s) |-> IF s[i] = c THEN d ELSE s[i]]

\* the value of a hexadecimal digit, -1 for any other character
HexValue(c) ==
  IF c >= 48 /\ c <= 57 THEN c - 48
  ELSE IF c >= 97 /\ c <= 102 THEN c - 87
  ELSE IF c >= 65 /\ c <= 70 THEN c - 55
  ELSE -1

\* parseInt(s, 16) of a string of one or two characters, stored in a
\* Uint8Array: the longest prefix of hexadecimal digits, NaN (stored as 0)
\* when there is none
ParseHexByte(s) ==
  IF s = <<>> \/ HexValue(s[1]) < 0 THEN 0
  ELSE IF Len(s) = 1 \/ HexValue(s[2]) < 0 THEN HexValue(s[1])
  ELSE 16 * HexValue(s[1]) + HexValue(s[2])

\* the Uint8Array of encodeUUID: new Uint8Array(length / 2) truncates the
\* length, and a write past the end is ignored
HexToBytes(h) ==
  [k \in 1..(Len(h) \div 2) |-> ParseHexByte(<<h[2 * k - 1], h[2 * k]>>)]

Plus == 43
Underscore == 95
Tilde == 126
Equals == 61

\* the base64 alphabet: A-Z, a-z, 0-9, +, /
Base64Char(n) ==
  IF n < 26 THEN 65 + n
  ELSE IF n < 52 THEN 97 + (n - 26)
  ELSE IF n < 62 THEN 48 + (n - 52)
  ELSE IF n = 62 THEN Plus
  ELSE Slash

Base64Value(c) ==
  IF c >= 65 /\ c <= 90 THEN c - 65
  ELSE IF c >= 97 /\ c <= 122 THEN c - 97 + 26
  ELSE IF c >= 48 /\ c <= 57 THEN c - 48 + 52
  ELSE IF c = Plus THEN 62
  ELSE IF c = Slash THEN 63
  ELSE -1

\* btoa of a string of bytes
RECURSIVE Btoa(_)
Btoa(b) ==
  IF b = <<>> THEN <<>>
  ELSE IF Len(b) = 1
    THEN <<Base64Char(b[1] \div 4), Base64Char((b[1] % 4) * 16), Equals, Equals>>
  ELSE IF Len(b) = 2
    THEN <<Base64Char(b[1] \div 4),
           Base64Char((b[1] % 4) * 16 + b[2] \div 16),
           Base64Char((b[2] % 16) * 4), Equals>>
  ELSE <<Base64Char(b[1] \div 4),
         Base64Char((b[1] % 4) * 16 + b[2] \div 16),
         Base64Char((b[2] % 16) * 4 + b[3] \div 64),
         Base64Char(b[3] % 64)>> \o Btoa(SubSeq(b, 4, Len(b)))

\* the bytes of a string of base64 digits with no padding left
RECURSIVE Base64Bytes(_)
Base64Bytes(d) ==
  IF Len(d) < 2 THEN <<>>
  ELSE LET v == [i \in 1..Len(d) |-> Base64Value(d[i])]
       IN  IF Len(d) = 2 THEN <<v[1] * 4 + v[2] \div 16>>
           ELSE IF Len(d) = 3
             THEN <<v[1] * 4 + v[2] \div 16, (v[2] % 16) * 16 + v[3] \div 4>>
           ELSE <<v[1] * 4 + v[2] \div 16, (v[2] % 16) * 16 + v[3] \div 4,
                  (v[3] % 4) * 64 + v[4]>> \o Base64Bytes(SubSeq(d, 5, Len(d)))

\* atob: one or two trailing "=" of a string whose length is a multiple of
\* 4 are dropped; it throws when what is left has a length of 1 modulo 4 or
\* a character outside the alphabet
Atob(e) ==
  LET n == Len(e)
      pad == IF n % 4 = 0 /\ n > 0 /\ e[n] = Equals
               THEN (IF e[n - 1] = Equals THEN 2 ELSE 1)
               ELSE 0
      d == SubSeq(e, 1, n - pad)
  IN  IF Len(d) % 4 = 1 \/ \E i \in 1..Len(d) : Base64Value(d[i]) < 0
        THEN Threw
        ELSE Returned(Base64Bytes(d))

EncodeUUID(uuid) ==
  Returned(Replace(Replace(Btoa(HexToBytes(Strip(uuid, Hyphen))), Plus, Underscore),
                   Slash, Tilde))

\* byte.toString(16).padStart(2, "0")
HexDigit(n) == IF n < 10 THEN 48 + n ELSE 87 + n
ByteToHex(b) == <<HexDigit(b \div 16), HexDigit(b % 16)>>

\* the forEach of decodeUUID: index is 0-based
RECURSIVE HexOfBytes(_, _)
HexOfBytes(b, index) ==
  IF b = <<>> THEN <<>>
  ELSE ByteToHex(Head(b))
         \o (IF index \in {3, 5, 7, 9} THEN <<Hyphen>> ELSE <<>>)
         \o HexOfBytes(Tail(b), index + 1)

DecodeUUIDAsBase64(encoded) ==
  LET bin == Atob(encoded)
  IN  IF ~bin.ok THEN Threw
      ELSE LET uuid == HexOfBytes(bin.v, 0)
           IN  Returned(SubSeq(uuid, 1, IF Len(uuid) < 36 THEN Len(uuid) ELSE 36))

DecodeUUID(encoded) ==
  LET bin == Atob(Replace(Replace(encoded, Underscore, Plus), Tilde, Slash))
  IN  IF ~bin.ok THEN Threw
      ELSE LET uuid == HexOfBytes(bin.v, 0)
           IN  Returned(SubSeq(uuid, 1, IF Len(uuid) < 36 THEN Len(uuid) ELSE 36))

(***************************************************************************)
(* Inputs of the operations                                                *)
(***************************************************************************)
UuidSample ==
  [i \in 1..36 |-> IF i \in {9, 14, 19, 24} THEN Hyphen
                   ELSE IF i % 2 = 0 THEN Digit(i % 10) ELSE 97 + (i % 6)]

\* one character more than isValidCustomId allows
LongId == [i \in 1..(MaxCustomIdLen + 1) |-> 120]

\* "fb": the argument of the synchronous methods in the main specification
ShortHex == <<102, 98>>

CustomIdNames == {"absent", "empty", "leadSlash", "trailSlash", "uuid", "long", "ok"}

CustomIdOf(n) ==
  CASE n = "absent"     -> Null
    [] n = "empty"      -> Str(<<>>)
    [] n = "leadSlash"  -> Str(<<Slash, 120>>)
    [] n = "trailSlash" -> Str(<<120, Slash>>)
    [] n = "uuid"       -> Str(UuidSample)
    [] n = "long"       -> Str(LongId)
    [] OTHER            -> Str(<<118, 97, 108, 105, 100>>)

FileNames == {"png", "tooBig", "text"}

FileOf(n) ==
  CASE n = "png"    -> [size |-> 1024, type |-> "image/png"]
    [] n = "tooBig" -> [size |-> MaxFileSize + 1, type |-> "image/png"]
    [] OTHER        -> [size |-> 1024, type |-> "text/plain"]

\* UUID strings: 8-4-4-4-12 with the digits x, y, z repeated, in either case
HexSamples == {48, 57, 97, 98, 102, 65, 70}

UuidOf(x, y, z) ==
  [i \in 1..36 |-> IF i \in {9, 14, 19, 24} THEN Hyphen
                   ELSE IF i % 3 = 0 THEN x ELSE IF i % 3 = 1 THEN y ELSE z]

UuidInputs == {UuidOf(x, y, z) : x, y, z \in HexSamples}

\* strings that are no UUID: empty, too short, too long, not hexadecimal,
\* hyphens only, and the 32 digits without their hyphens
NonUuidInputs ==
  {<<>>, <<122, 122>>, <<97, 98, 99>>, <<97, 98, 99, 100>>,
   <<Hyphen, Hyphen>>,
   UuidOf(103, 48, 48),
   [i \in 1..30 |-> 97], [i \in 1..32 |-> 97], [i \in 1..34 |-> 97],
   UuidOf(97, 97, 97) \o <<97, 97>>}

\* the strings given to isValidCustomId
RECURSIVE StringsUpTo(_)
StringsUpTo(n) ==
  IF n = 0 THEN {<<>>}
  ELSE LET shorter == StringsUpTo(n - 1)
       IN  shorter \cup {<<c>> \o t : c \in {Slash, 120}, t \in {u \in shorter : Len(u) = n - 1}}

IdInputs ==
  StringsUpTo(MaxIdLen) \cup UuidInputs
    \cup {UuidOf(103, 48, 48), <<118, 97, 108, 105, 100>>,
          [i \in 1..MaxCustomIdLen |-> 120],
          [i \in 1..(MaxCustomIdLen + 1) |-> 120]}

\* listImages(page, perPage)
MinPerPage == 10
MaxPerPage == 10000
Pages == {0, 1}
PerPages == {9, 10, 10000, 10001}

\* what a refresh response's result.token and result.expiresAt can be:
\* z.string() accepts every string, the empty one included
TokenStrings == {<<>>, <<65>>}
ExpiryStrings == {<<>>, ToISOString(0), ToISOString(1)}

\* result.count.current of a usage-stats response
Totals == {0, 1, 10000, 10001}

(***************************************************************************)
(* The operations in flight.  ops[s] is the latest call of caller s: its    *)
(* position (phase), the request it dispatched, and what it returned; a    *)
(* caller starts its next call when the latest has returned.               *)
(***************************************************************************)
Slots == {1, 2}

BatchKinds ==
  {"uploadImage", "uploadImageWithFile", "uploadImageWithBuffer",
   "deleteImage", "getImageDetails", "updateImage"}
PlainKinds == {"listImages", "getUsageStats", "getBaseImage", "refreshBatchToken"}

NoUrl == [host |-> "none", account |-> <<>>, path |-> ""]

IdleOp ==
  [kind |-> "none", phase |-> "idle", args |-> <<>>, customId |-> "absent",
   file |-> "none", url |-> NoUrl, query |-> <<>>, method |-> "", cred |-> <<>>,
   held |-> FALSE, nreq |-> 0, net |-> "", success |-> FALSE,
   result |-> "pending", got |-> <<>>,
   pages |-> {}, images |-> <<>>]

PathOf(kind) ==
  CASE kind \in {"uploadImage", "uploadImageWithFile", "uploadImageWithBuffer",
                 "listImages"} -> "/images/v1"
    [] kind = "getUsageStats" -> "/images/v1/stats"
    [] kind \in {"deleteImage", "getImageDetails", "updateImage"} -> "/images/v1/{id}"
    [] kind = "getBaseImage" -> "/images/v1/{id}/blob"
    [] OTHER -> "/images/v1/batch_token"

MethodOf(kind) ==
  CASE kind \in {"uploadImage", "uploadImageWithFile", "uploadImageWithBuffer"} -> "POST"
    [] kind = "deleteImage" -> "DELETE"
    [] kind = "updateImage" -> "PATCH"
    [] OTHER -> "GET"

\* fetch(baseUrl, {method, headers: {Authorization: `Bearer ${getToken(b)}`}})
Fetch(op, isBatchMethod) ==
  [op EXCEPT !.phase = "fetch",
             !.method = MethodOf(op.kind),
             !.cred = GetToken(config, batchToken, isBatchMethod),
             !.nreq = op.nreq + 1]

FailedRethrows(op) == [op EXCEPT !.phase = "done", !.result = "throw"]

\* catch: console.error; finally (batch operations): checkBatchToken;
\* return null (deleteImage, refreshBatchToken: false)
Failed(op) ==
  [op EXCEPT !.phase = "done",
             !.result = IF op.kind \in {"deleteImage", "refreshBatchToken"}
                          THEN "false" ELSE "null"]

\* what fetch and the parse of the body can come to: fetch rejects, the
\* response is not OK, the body does not parse against the schema, or it does
Nets == {"reject", "notok", "badbody", "valid"}

\* the call whose fetch came to net, with the envelope's success where the
\* operation reads it: handleResponse throws unless net is valid
Replied(op, net, success) ==
  [op EXCEPT !.net = net, !.success = (net = "valid" /\ success)]

(***************************************************************************)
(* deleteImage, getImageDetails, updateImage: up to `await fetch`          *)
(***************************************************************************)
BeginBatchOp(s, kind) ==
  /\ ops[s].phase \in {"idle", "done"}
  /\ kind \in {"deleteImage", "getImageDetails", "updateImage"}
  /\ LET op == [IdleOp EXCEPT
                  !.kind = kind,
                  !.url = GetBaseUrl(config, batchToken, PathOf(kind), TRUE),
                  !.held = Truthy(batchToken.token)]
         f == Fetch(op, TRUE)
     IN  ops' = [ops EXCEPT ![s] = f]
  /\ UNCHANGED <<config, batchToken, now>>

(***************************************************************************)
(* uploadImage, uploadImageWithBuffer: up to `await fetch`, or to the      *)
(* return when isValidCustomId throws                                      *)
(***************************************************************************)
BeginUpload(s, kind, cid) ==
  /\ ops[s].phase \in {"idle", "done"}
  /\ kind \in {"uploadImage", "uploadImageWithBuffer"}
  /\ LET op == [IdleOp EXCEPT
                  !.kind = kind,
                  !.url = GetBaseUrl(config, batchToken, PathOf(kind), TRUE),
                  !.held = Truthy(batchToken.token),
                  !.customId = cid]
         f == Fetch(op, TRUE)
     IN  IF CustomIdStep(CustomIdOf(cid)) = "throw"
           THEN /\ ops' = [ops EXCEPT ![s] = Failed(op)]
                /\ batchToken' = CheckBatchToken(batchToken, now)
           ELSE /\ ops' = [ops EXCEPT ![s] = f]
                /\ batchToken' = batchToken
  /\ UNCHANGED <<config, now>>

(***************************************************************************)
(* uploadImageWithFile: up to `await this.validateImage(file)`, and from   *)
(* there to `await fetch` or to the return                                 *)
(***************************************************************************)
BeginUploadWithFile(s, file, cid) ==
  /\ ops[s].phase \in {"idle", "done"}
  /\ ops' = [ops EXCEPT ![s] =
       [IdleOp EXCEPT
          !.kind = "uploadImageWithFile",
          !.phase = "validate",
          !.url = GetBaseUrl(config, batchToken, PathOf("uploadImageWithFile"), TRUE),
          !.held = Truthy(batchToken.token),
          !.customId = cid,
          !.file = file]]
  /\ UNCHANGED <<config, batchToken, now>>

ResumeUploadWithFile(s) ==
  /\ ops[s].phase = "validate"
  /\ LET op == ops[s]
         f == Fetch(op, TRUE)
     IN  IF \/ ~ValidateImage(FileOf(op.file))
            \/ CustomIdStep(CustomIdOf(op.customId)) = "throw"
           THEN /\ ops' = [ops EXCEPT ![s] = Failed(op)]
                /\ batchToken' = CheckBatchToken(batchToken, now)
           ELSE /\ ops' = [ops EXCEPT ![s] = f]
                /\ batchToken' = batchToken
  /\ UNCHANGED <<config, now>>

(***************************************************************************)
(* The response of a batch-eligible operation: handleResponse, then the    *)
(* finally block                                                           *)
(***************************************************************************)
CompleteBatchOp(s, net, success) ==
  /\ ops[s].phase = "fetch"
  /\ ops[s].kind \in BatchKinds
  /\ LET op == ops[s]
     IN  ops' = [ops EXCEPT ![s] =
           IF net # "valid" THEN Failed(Replied(op, net, FALSE))
           ELSE [Replied(op, net, op.kind = "deleteImage" /\ success) EXCEPT
                           !.phase = "done",
                           !.result = IF op.kind = "deleteImage"
                                        THEN (IF success THEN "true" ELSE "false")
                                        ELSE "value"]]
  /\ batchToken' = CheckBatchToken(batchToken, now)
  /\ UNCHANGED <<config, now>>

(***************************************************************************)
(* listImages: the perPage check, then `await fetch`                       *)
(***************************************************************************)
PerPageOkExclusive(perPage) == ~(perPage <= MinPerPage \/ perPage >= MaxPerPage)

PerPageOk(perPage) == ~(perPage < MinPerPage \/ perPage > MaxPerPage)

BeginListImages(s, page, perPage) ==
  /\ ops[s].phase \in {"idle", "done"}
  /\ LET op == [IdleOp EXCEPT
                  !.kind = "listImages",
                  !.url = GetBaseUrl(config, batchToken, PathOf("listImages"), FALSE),
                  !.held = Truthy(batchToken.token),
                  !.args = <<page, perPage>>]
     IN  ops' = [ops EXCEPT ![s] =
                   IF PerPageOk(perPage)
                     THEN [Fetch(op, FALSE) EXCEPT !.query = <<page, perPage>>]
                     ELSE Failed(op)]
  /\ UNCHANGED <<config, batchToken, now>>

(***************************************************************************)
(* getUsageStats, getBaseImage, refreshBatchToken: up to `await fetch`     *)
(***************************************************************************)
BeginGet(s, kind) ==
  /\ ops[s].phase \in {"idle", "done"}
  /\ kind \in {"getUsageStats", "getBaseImage", "refreshBatchToken"}
  /\ LET op == [IdleOp EXCEPT
                  !.kind = kind,
                  !.url = GetBaseUrl(config, batchToken, PathOf(kind), FALSE),
                  !.held = Truthy(batchToken.token)]
     IN  ops' = [ops EXCEPT ![s] = Fetch(op, FALSE)]
  /\ UNCHANGED <<config, batchToken, now>>

CompleteGetWithBookkeeping(s, net) ==
  /\ ops[s].phase = "fetch"
  /\ ops[s].kind \in {"listImages", "getUsageStats", "getBaseImage"}
  /\ ops' = [ops EXCEPT ![s] =
       IF net # "valid" THEN Failed(Replied(ops[s], net, FALSE))
       ELSE [Replied(ops[s], net, FALSE) EXCEPT !.phase = "done", !.result = "value"]]
  /\ batchToken' = CheckBatchToken(batchToken, now)
  /\ UNCHANGED <<config, now>>

\* the response of listImages, getUsageStats, getBaseImage
CompleteGet(s, net) ==
  /\ ops[s].phase = "fetch"
  /\ ops[s].kind \in {"listImages", "getUsageStats", "getBaseImage"}
  /\ ops' = [ops EXCEPT ![s] =
       IF net # "valid" THEN Failed(Replied(ops[s], net, FALSE))
       ELSE [Replied(ops[s], net, FALSE) EXCEPT !.phase = "done", !.result = "value"]]
  /\ UNCHANGED <<config, batchToken, now>>

(***************************************************************************)
(* refreshBatchToken: the response                                         *)
(***************************************************************************)
CompleteRefreshClearsOnFailure(s, net, success, token, expiresAt) ==
  /\ ops[s].phase = "fetch"
  /\ ops[s].kind = "refreshBatchToken"
  /\ IF net = "valid" /\ success
       THEN /\ batchToken' = [token |-> Str(token), expiresAt |-> Str(expiresAt),
                              requests |-> 0]
            /\ ops' = [ops EXCEPT ![s] =
                 [Replied(ops[s], net, success) EXCEPT
                    !.phase = "done", !.result = "true",
                    !.got = <<token, expiresAt>>]]
       ELSE /\ batchToken' = EmptyToken
            /\ ops' = [ops EXCEPT ![s] = Failed(Replied(ops[s], net, success))]
  /\ UNCHANGED <<config, now>>

CompleteRefresh(s, net, success, token, expiresAt) ==
  /\ ops[s].phase = "fetch"
  /\ ops[s].kind = "refreshBatchToken"
  /\ IF net = "valid" /\ success
       THEN /\ batchToken' = [token |-> Str(token), expiresAt |-> Str(expiresAt),
                              requests |-> 0]
            /\ ops' = [ops EXCEPT ![s] =
                 [Replied(ops[s], net, success) EXCEPT
                    !.phase = "done", !.result = "true",
                    !.got = <<token, expiresAt>>]]
       ELSE /\ batchToken' = batchToken
            /\ ops' = [ops EXCEPT ![s] = Failed(Replied(ops[s], net, success))]
  /\ UNCHANGED <<config, now>>

(***************************************************************************)
(* getFullListImages: getUsageStats, then every page at once               *)
(***************************************************************************)
PageCountFloor(total) ==
  LET c == total \div MaxPerPage IN IF c < 0 THEN 0 ELSE c

\* Math.ceil(total / perPage), as the length Array.from gives the array
PageCount(total) ==
  LET c == -((-total) \div MaxPerPage) IN IF c < 0 THEN 0 ELSE c

\* the images the service lists on page p
ImagesOfPage(p) == <<10 * p + 1, 10 * p + 2>>

BeginFullList(s) ==
  /\ ops[s].phase \in {"idle", "done"}
  /\ LET op == [IdleOp EXCEPT
                  !.kind = "getFullListImages",
                  !.url = GetBaseUrl(config, batchToken, PathOf("getUsageStats"), FALSE),
                  !.held = Truthy(batchToken.token)]
     IN  ops' = [ops EXCEPT ![s] = [Fetch(op, FALSE) EXCEPT !.phase = "stats"]]
  /\ UNCHANGED <<config, batchToken, now>>

\* the arguments of the page calls: the i-th callback of Array.from calls
\* listImages(page++, perPage), page starting at 1
PageCalls(n) == [i \in 1..n |-> <<i, MaxPerPage>>]

StatsReturnListsAnyway(s, net, total) ==
  /\ ops[s].phase = "stats"
  /\ LET op == ops[s]
         n == IF net # "valid" THEN 1 ELSE PageCount(total)
         calls == PageCalls(n)
         listing == [op EXCEPT
           !.phase = "pages",
           !.args = <<total>>,
           !.url = GetBaseUrl(config, batchToken, PathOf("listImages"), FALSE),
           !.cred = GetToken(config, batchToken, FALSE),
           !.query = calls,
           !.pages = {calls[i][1] : i \in 1..n},
           !.nreq = op.nreq + n]
     IN  ops' = [ops EXCEPT ![s] =
           IF n = 0
             THEN [op EXCEPT !.phase = "done", !.result = "list", !.args = <<total>>]
           ELSE IF \E i \in 1..n : ~PerPageOk(calls[i][2])
             THEN Failed([op EXCEPT !.args = <<total>>])
           ELSE [listing EXCEPT !.net = IF net # "valid" THEN net ELSE @]]
  /\ UNCHANGED <<config, batchToken, now>>

\* getUsageStats returns: null, or the count; the page calls are all issued
\* before the first of them is awaited, each through listImages and its
\* perPage check
StatsReturn(s, net, total) ==
  /\ ops[s].phase = "stats"
  /\ LET op == ops[s]
         n == PageCount(total)
         calls == PageCalls(n)
         listing == [op EXCEPT
           !.phase = "pages",
           !.args = <<total>>,
           !.url = GetBaseUrl(config, batchToken, PathOf("listImages"), FALSE),
           !.cred = GetToken(config, batchToken, FALSE),
           !.query = calls,
           !.pages = {calls[i][1] : i \in 1..n},
           !.nreq = op.nreq + n]
     IN  ops' = [ops EXCEPT ![s] =
           IF net # "valid" THEN Failed(Replied(op, net, FALSE))
           ELSE IF n = 0
             THEN [op EXCEPT !.phase = "done", !.result = "list", !.args = <<total>>]
           ELSE IF \E i \in 1..n : ~PerPageOk(calls[i][2])
             THEN Failed([op EXCEPT !.args = <<total>>])
           ELSE listing]
  /\ UNCHANGED <<config, batchToken, now>>

PageReturnKeepsOthers(s, p, net, success) ==
  /\ ops[s].phase = "pages"
  /\ p \in ops[s].pages
  /\ LET op == ops[s]
         failed == net # "valid" \/ ~success
         images == IF failed THEN op.images ELSE op.images \o ImagesOfPage(p)
         rest == op.pages \ {p}
         seen == IF failed THEN Replied(op, net, success) ELSE op
     IN  ops' = [ops EXCEPT ![s] =
           IF rest = {}
             THEN [seen EXCEPT !.phase = "done", !.result = "list",
                               !.images = images, !.pages = rest]
           ELSE [seen EXCEPT !.images = images, !.pages = rest]]
  /\ UNCHANGED <<config, batchToken, now>>

\* one page call returns, in any order: a failed or unsuccessful page
\* rejects Promise.all, and the catch returns null
PageReturn(s, p, net, success) ==
  /\ ops[s].phase = "pages"
  /\ p \in ops[s].pages
  /\ LET op == ops[s]
         images == op.images \o ImagesOfPage(p)
         rest == op.pages \ {p}
     IN  ops' = [ops EXCEPT ![s] =
           IF net # "valid" \/ ~success
             THEN [Failed(Replied(op, net, success)) EXCEPT !.images = <<>>]
           ELSE IF rest = {}
             THEN [op EXCEPT !.phase = "done", !.result = "list",
                             !.images = images, !.pages = rest]
           ELSE [op EXCEPT !.images = images, !.pages = rest]]
  /\ UNCHANGED <<config, batchToken, now>>

(***************************************************************************)
(* The synchronous methods, called as the demo calls them:                 *)
(* isValidCustomId(c), isValidCustomId(encodeUUID(u)), encodeUUID(u) and   *)
(* decodeUUID(encodeUUID(u)).  args is the argument, got what was returned *)
(***************************************************************************)
PureKinds ==
  {"isValidCustomId", "isValidCustomId(encodeUUID)", "encodeUUID",
   "decodeUUID(encodeUUID)"}

\* the record of a call that returned r, or threw
PureCall(kind, arg, r) ==
  [IdleOp EXCEPT !.kind = kind, !.phase = "done", !.args = <<arg>>,
                 !.got = IF r.ok THEN <<r.v>> ELSE <<>>,
                 !.result = IF r.ok THEN "value" ELSE "throw"]

\* isValidCustomId(c) as a call: true, or a throw
ValidCustomId(c) ==
  IF IsValidCustomId(c) = "true" THEN Returned("true") ELSE Threw

CallIsValidCustomId(s, customId) ==
  /\ ops[s].phase \in {"idle", "done"}
  /\ ops' = [ops EXCEPT ![s] =
               PureCall("isValidCustomId", customId, ValidCustomId(customId))]
  /\ UNCHANGED <<config, batchToken, now>>

CallEncodeUUID(s, uuid) ==
  /\ ops[s].phase \in {"idle", "done"}
  /\ ops' = [ops EXCEPT ![s] = PureCall("encodeUUID", uuid, EncodeUUID(uuid))]
  /\ UNCHANGED <<config, batchToken, now>>

CallIsValidEncoded(s, uuid) ==
  /\ ops[s].phase \in {"idle", "done"}
  /\ LET encoded == EncodeUUID(uuid)
     IN  ops' = [ops EXCEPT ![s] =
           PureCall("isValidCustomId(encodeUUID)", uuid,
                    IF encoded.ok THEN ValidCustomId(encoded.v) ELSE Threw)]
  /\ UNCHANGED <<config, batchToken, now>>

CallDecodeEncoded(s, uuid) ==
  /\ ops[s].phase \in {"idle", "done"}
  /\ LET encoded == EncodeUUID(uuid)
     IN  ops' = [ops EXCEPT ![s] =
           PureCall("decodeUUID(encodeUUID)", uuid,
                    IF encoded.ok THEN DecodeUUID(encoded.v) ELSE Threw)]
  /\ UNCHANGED <<config, batchToken, now>>

(***************************************************************************)
(* Time passes                                                             *)
(***************************************************************************)
Tick ==
  /\ now < MaxClock
  /\ now' = now + 1
  /\ UNCHANGED <<config, batchToken, ops>>

(***************************************************************************)
(* The history of the token issued last: what the refresh returned, the    *)
(* requests dispatched bearing it, the batch-eligible calls finished       *)
(* since, the callers whose call in flight bears it, and the calls that    *)
(* bore it and have finished, for as long as the client keeps it.  Nothing *)
(* of the client reads it.                                                 *)
(***************************************************************************)
NoIssue ==
  [issued |-> FALSE, token |-> <<>>, expiresAt |-> <<>>, sent |-> 0, finished |-> 0,
   bearing |-> {}, made |-> 0]

Recorded(s) ==
  LET a == ops[s]
      b == ops'[s]
  IN  IF a.phase = "fetch" /\ b.kind = "refreshBatchToken" /\ b.result = "true"
        THEN [issued |-> TRUE, token |-> b.got[1], expiresAt |-> b.got[2],
              sent |-> 0, finished |-> 0, bearing |-> {}, made |-> 0]
        ELSE IF ~batchToken.token.some THEN issue
        ELSE LET dispatched == b.phase = "fetch" /\ a.phase # "fetch"
                                 /\ b.cred # config.apiKey
                 returned == b.kind \in BatchKinds /\ b.phase = "done"
                               /\ a.phase = "fetch"
             IN  [issue EXCEPT
                    !.sent = IF dispatched THEN @ + 1 ELSE @,
                    !.finished = IF returned THEN @ + 1 ELSE @,
                    !.bearing = IF dispatched THEN @ \cup {s}
                                ELSE IF returned THEN @ \ {s} ELSE @,
                    !.made = IF returned /\ s \in issue.bearing THEN @ + 1 ELSE @]

(***************************************************************************)
(* The client after construction, and its runs                             *)
(***************************************************************************)
Init ==
  /\ config = [accountId |-> <<97, 99, 99>>, apiKey |-> <<75>>]
  /\ batchToken = EmptyToken
  /\ now = 0
  /\ ops = [s \in Slots |-> IdleOp]
  /\ started = 0
  /\ issue = NoIssue

\* caller 1 runs any operation; caller 2, beside it, runs the operations
\* that write the token state
KindsOf(s) ==
  IF s = 1 THEN BatchKinds \cup PlainKinds \cup {"getFullListImages"} \cup PureKinds
  ELSE {"refreshBatchToken", "deleteImage"}

Begin(s) ==
  \/ \E kind \in KindsOf(s) \cap {"deleteImage", "getImageDetails", "updateImage"} :
       BeginBatchOp(s, kind)
  \/ \E kind \in KindsOf(s) \cap {"uploadImage", "uploadImageWithBuffer"},
        cid \in CustomIdNames :
       BeginUpload(s, kind, cid)
  \/ /\ "uploadImageWithFile" \in KindsOf(s)
     /\ \E file \in FileNames, cid \in CustomIdNames :
          /\ ValidateImage(FileOf(file)) \/ cid \in {"absent", "uuid"}
          /\ BeginUploadWithFile(s, file, cid)
  \/ /\ "listImages" \in KindsOf(s)
     /\ \E page \in Pages, perPage \in PerPages : BeginListImages(s, page, perPage)
  \/ \E kind \in KindsOf(s) \cap {"getUsageStats", "getBaseImage", "refreshBatchToken"} :
       BeginGet(s, kind)
  \/ /\ "getFullListImages" \in KindsOf(s)
     /\ BeginFullList(s)
  \/ /\ PureKinds \subseteq KindsOf(s)
     /\ \/ \E customId \in {<<Slash>>, ShortHex} : CallIsValidCustomId(s, customId)
        \/ CallIsValidEncoded(s, ShortHex)
        \/ CallEncodeUUID(s, ShortHex)
        \/ CallDecodeEncoded(s, ShortHex)

\* the responses: a body is read only of a response that is OK, and an
\* envelope only of a body that parsed
Bodies(net, set) == IF net = "valid" THEN set ELSE {CHOOSE x \in set : TRUE}

Respond(s) ==
  \/ \E net \in Nets : \E success \in Bodies(net, BOOLEAN) :
       CompleteBatchOp(s, net, success)
  \/ \E net \in Nets : CompleteGet(s, net)
  \/ \E net \in Nets : \E success \in Bodies(net, BOOLEAN) :
       \E token \in Bodies(IF success THEN net ELSE "", TokenStrings),
          expiresAt \in Bodies(IF success THEN net ELSE "", ExpiryStrings) :
         CompleteRefresh(s, net, success, token, expiresAt)
  \/ \E net \in Nets : \E total \in Bodies(net, Totals) : StatsReturn(s, net, total)
  \/ \E p \in ops[s].pages, net \in Nets : \E success \in Bodies(net, BOOLEAN) :
       PageReturn(s, p, net, success)

Start ==
  \E s \in Slots :
    started < MaxOps /\ Begin(s) /\ started' = started + 1 /\ UNCHANGED issue
Resume == \E s \in Slots : ResumeUploadWithFile(s) /\ UNCHANGED <<started, issue>>
Response == \E s \in Slots : Respond(s) /\ UNCHANGED <<started, issue>>
Time == Tick /\ UNCHANGED <<started, issue>>

Next == Start \/ Resume \/ Response \/ Time

Spec == Init /\ [][Next]_vars

(***************************************************************************)
(* The request budget of a token: refreshes and batch-eligible calls, as   *)
(* many as the caller likes, with the history of the token recorded.       *)
(* SpecSeq is one caller, one call after the other, while time passes;     *)
(* SpecBudget is two callers at once, the second one deleting images, at   *)
(* one instant.                                                            *)
(***************************************************************************)
BudgetBegin(s) ==
  /\ issue.sent <= RequestLimit
  /\ issue.finished <= RequestLimit
  /\ \/ BeginBatchOp(s, "deleteImage")
     \/ s = 1 /\ BeginGet(s, "refreshBatchToken")
  /\ issue' = Recorded(s)
  /\ UNCHANGED started

BudgetRespond(s) ==
  /\ \/ \E net \in {"notok", "valid"} : \E success \in Bodies(net, BOOLEAN) :
          CompleteBatchOp(s, net, success)
     \/ \E net \in {"notok", "valid"} : \E success \in Bodies(net, BOOLEAN) :
          \E token \in Bodies(IF success THEN net ELSE "", TokenStrings),
             expiresAt \in Bodies(IF success THEN net ELSE "", ExpiryStrings) :
            CompleteRefresh(s, net, success, token, expiresAt)
  /\ issue' = Recorded(s)
  /\ UNCHANGED started

SeqStart == BudgetBegin(1)
SeqResponse == BudgetRespond(1)

NextSeq == SeqStart \/ SeqResponse \/ Time

SpecSeq == Init /\ [][NextSeq]_vars

BudgetStart == \E s \in Slots : BudgetBegin(s)
BudgetResponse == \E s \in Slots : BudgetRespond(s)

NextBudget == BudgetStart \/ BudgetResponse

SpecBudget == Init /\ [][NextBudget]_vars

(***************************************************************************)
(* The synchronous methods over their inputs: they read and write nothing  *)
(* of the client, so one call on the new client is every call              *)
(***************************************************************************)
Validate ==
  /\ ops[1].phase = "idle"
  /\ \E customId \in IdInputs : CallIsValidCustomId(1, customId)
  /\ UNCHANGED <<started, issue>>
ValidateEncoded ==
  /\ ops[1].phase = "idle"
  /\ \E uuid \in UuidInputs : CallIsValidEncoded(1, uuid)
  /\ UNCHANGED <<started, issue>>
Encode ==
  /\ ops[1].phase = "idle"
  /\ \E uuid \in UuidInputs \cup NonUuidInputs : CallEncodeUUID(1, uuid)
  /\ UNCHANGED <<started, issue>>
RoundTrip ==
  /\ ops[1].phase = "idle"
  /\ \E uuid \in UuidInputs : CallDecodeEncoded(1, uuid)
  /\ UNCHANGED <<started, issue>>

NextPure == Validate \/ ValidateEncoded \/ Encode \/ RoundTrip

SpecPure == Init /\ [][NextPure]_vars

(***************************************************************************)
(* Steps and states the claims speak of                                    *)
(***************************************************************************)
\* caller s's refreshBatchToken returns in this step
RefreshReturns(s) ==
  /\ ops[s].kind = "refreshBatchToken"
  /\ ops[s].phase = "fetch"
  /\ ops'[s].phase = "done"

\* the bookkeeping of caller s's batch-eligible call runs in this step
BookkeepingRuns(s) ==
  \/ ops[s].phase = "fetch" /\ CompleteBatchOp(s, ops'[s].net, ops'[s].success)
  \/ ops'[s].phase = "done" /\ ResumeUploadWithFile(s)
  \/ ops'[s].phase = "done" /\ BeginUpload(s, ops'[s].kind, ops'[s].customId)

\* a batch-eligible call started now goes to the batch host with token tok
RoutedToBatch(cfg, bt, tok) ==
  /\ GetBaseUrl(cfg, bt, "/images/v1", TRUE).host = "batch"
  /\ GetToken(cfg, bt, TRUE) = tok

(***************************************************************************)
(* C1: whenever refreshBatchToken returns true, whatever strings the       *)
(* response carried, the client holds exactly the returned token and       *)
(* expiry with requests = 0, and a batch-eligible call started next goes   *)
(* to the batch host with that token.                                      *)
(***************************************************************************)
C1_RefreshTrueIsActive ==
  [][\A s \in Slots :
       (RefreshReturns(s) /\ ops'[s].result = "true") =>
         /\ batchToken' = [token |-> Str(ops'[s].got[1]),
                           expiresAt |-> Str(ops'[s].got[2]), requests |-> 0]
         /\ RoutedToBatch(config', batchToken', ops'[s].got[1])]_vars

(***************************************************************************)
(* C2: after a successful refresh, with batch-eligible calls run one at a  *)
(* time, no further refresh and the expiry not passed: after the k-th call *)
(* has finished, 1 <= k <= 199, the token is held with requests = k, and   *)
(* when the 200th has finished the token is retired.                       *)
(***************************************************************************)
NotExpired == ~StrGT(ToISOString(now), issue.expiresAt)

C2_CountsToTheLimit ==
  (issue.issued /\ NotExpired) =>
    /\ (issue.finished >= 1 /\ issue.finished < RequestLimit) =>
         /\ Truthy(batchToken.token)
         /\ batchToken.token.v = issue.token
         /\ batchToken.requests = issue.finished
    /\ issue.finished = RequestLimit => batchToken = EmptyToken

\* the same for the refreshes that returned a non-empty token and expiry
C2_CountsToTheLimitNonEmpty ==
  (issue.token # <<>> /\ issue.expiresAt # <<>>) => C2_CountsToTheLimit

\* the witness of C2's count: the 199th call of a run has finished
C2_Counted ==
  /\ issue.finished = RequestLimit - 1
  /\ batchToken.requests = RequestLimit - 1
  /\ NotExpired

(***************************************************************************)
(* C3: when the bookkeeping of a batch-eligible call runs while a token is *)
(* held and the time is later than the stored expiry time, the token is    *)
(* retired (token and expiresAt null, requests 0), whatever requests was.  *)
(***************************************************************************)
\* the stored expiresAt is the time t, and the clock is past it
PastExpiry(bt, clock) ==
  \E t \in 0..MaxClock : bt.expiresAt = Str(ToISOString(t)) /\ clock > t

C4_FailedRefreshKeepsState ==
  [][\A s \in Slots :
       (RefreshReturns(s) /\ ~(ops'[s].net = "valid" /\ ops'[s].success))
         => /\ ops'[s].result = "false"
            /\ batchToken' = batchToken]_vars

\* a refresh has failed on a client that holds a token with requests = 1
C4_FailedWhileActive ==
  \E s \in Slots :
    /\ ops[s].kind = "refreshBatchToken" /\ ops[s].result = "false"
    /\ ops[s].net = "badbody"
    /\ Truthy(batchToken.token) /\ batchToken.requests = 1

(***************************************************************************)
(* C5: a request goes to the batch host exactly when its operation is      *)
(* batch-eligible and a token is held when the URL is built, and else to   *)
(* the account's standard host, with the operation's path either way;      *)
(* listImages, getUsageStats, getBaseImage, refreshBatchToken (and the     *)
(* calls getFullListImages makes) go to the standard host with the API     *)
(* key, also while a token is held.                                        *)
(***************************************************************************)
PathsOf(kind) ==
  IF kind = "getFullListImages"
    THEN {PathOf("getUsageStats"), PathOf("listImages")}
    ELSE {PathOf(kind)}

C5_HostByEligibilityAndToken ==
  \A s \in Slots :
    LET op == ops[s]
    IN  (op.phase # "idle" /\ op.kind \notin PureKinds) =>
          /\ op.url.host = "batch" <=> (op.kind \in BatchKinds /\ op.held)
          /\ op.url.host = "api" <=> ~(op.kind \in BatchKinds /\ op.held)
          /\ op.url.host = "api" => op.url.account = config.accountId
          /\ op.url.path \in PathsOf(op.kind)
          /\ (op.kind \notin BatchKinds /\ op.nreq > 0) => op.cred = config.apiKey

\* with a token held, listImages is on the standard host with the API key
\* and deleteImage on the batch host
C5_BothHostsInUse ==
  /\ ops[1].kind = "listImages" /\ ops[1].phase = "fetch" /\ ops[1].held
  /\ ops[1].url.host = "api" /\ ops[1].cred = config.apiKey
  /\ ops[2].kind = "deleteImage" /\ ops[2].phase = "fetch"
  /\ ops[2].url.host = "batch"

(***************************************************************************)
(* C6: every request of a batch-eligible operation goes to the batch host  *)
(* exactly when its bearer credential is the batch token, and to the       *)
(* standard host exactly when it is the API key, under any interleaving.   *)
(***************************************************************************)
C6_CredentialMirrorsHost ==
  \A s \in Slots :
    LET op == ops[s]
    IN  (op.kind \in BatchKinds /\ op.nreq > 0) =>
          /\ op.url.host = "batch" <=> op.cred # config.apiKey
          /\ op.url.host = "api" <=> op.cred = config.apiKey

\* the same for the operations that read the URL and the credential with no
\* await between the two
C6_MirrorsWithoutAwait ==
  \A s \in Slots :
    LET op == ops[s]
    IN  (op.kind \in BatchKinds \ {"uploadImageWithFile"} /\ op.nreq > 0) =>
          /\ op.url.host = "batch" <=> op.cred # config.apiKey
          /\ op.url.host = "api" <=> op.cred = config.apiKey

(***************************************************************************)
(* C7: at most 200 requests are ever dispatched bearing one issued batch   *)
(* token, under any interleaving of batch-eligible operations.             *)
(***************************************************************************)
C7_AtMostLimitRequests == issue.sent <= RequestLimit

(***************************************************************************)
(* C8: no operation rejects on a network or remote failure: when the fetch *)
(* rejects, the response is not OK or the body does not match the schema,  *)
(* deleteImage and refreshBatchToken return false and every other          *)
(* operation returns null.                                                 *)
(***************************************************************************)
C8_FailureGivesAbsentResult ==
  \A s \in Slots :
    LET op == ops[s]
    IN  /\ op.net \in {"reject", "notok", "badbody"} =>
             /\ op.phase = "done"
             /\ op.result = IF op.kind \in {"deleteImage", "refreshBatchToken"}
                              THEN "false" ELSE "null"
        /\ op.kind \notin PureKinds => op.result # "throw"

\* an upload whose fetch rejected, and a delete whose body did not parse
C8_FailuresSeen ==
  /\ ops[1].kind = "uploadImage" /\ ops[1].net = "reject" /\ ops[1].result = "null"
  /\ ops[2].kind = "deleteImage" /\ ops[2].net = "badbody" /\ ops[2].result = "false"

(***************************************************************************)
(* C9: an upload called with a supplied customId that isValidCustomId      *)
(* rejects raises the validation failure to its caller.                    *)
(***************************************************************************)
UploadKinds == {"uploadImage", "uploadImageWithFile", "uploadImageWithBuffer"}

Rejected(cid) == CustomIdOf(cid).some /\ IsValidCustomId(CustomIdOf(cid).v) # "true"

C9_InvalidCustomIdRaises ==
  \A s \in Slots :
    LET op == ops[s]
    IN  (op.kind \in UploadKinds /\ op.phase = "done" /\ Rejected(op.customId)
         /\ (op.kind = "uploadImageWithFile" => ValidateImage(FileOf(op.file))))
          => op.result = "throw"

(***************************************************************************)
(* C9, amended: an upload called with a non-empty customId that            *)
(* isValidCustomId rejects resolves to null and dispatches no request; the *)
(* failure is caught in the operation.  (An empty customId is not          *)
(* validated.)                                                             *)
(***************************************************************************)
C9_InvalidCustomIdGivesNull ==
  \A s \in Slots :
    LET op == ops[s]
    IN  (op.kind \in UploadKinds /\ Rejected(op.customId) /\ op.customId # "empty") =>
          /\ op.phase \in {"validate", "done"}
          /\ op.nreq = 0
          /\ op.phase = "done" => (op.result = "null" /\ op.net = "")

\* uploadImage with a raw UUID as customId has returned null
C9_UuidUploadReturned ==
  /\ ops[1].kind = "uploadImage" /\ ops[1].customId = "uuid"
  /\ ops[1].phase = "done" /\ ops[1].result = "null" /\ ops[1].nreq = 0

(***************************************************************************)
(* C10: listImages with perPage < 10 or perPage > 10000 returns null and   *)
(* issues no request, whatever the page; with 10 <= perPage <= 10000 it    *)
(* issues exactly one GET to the standard host carrying page and per_page. *)
(***************************************************************************)
C10_PerPageRange ==
  \A s \in Slots :
    LET op == ops[s]
    IN  op.kind = "listImages" =>
          IF op.args[2] < 10 \/ op.args[2] > 10000
            THEN op.phase = "done" /\ op.result = "null" /\ op.nreq = 0
            ELSE /\ op.nreq = 1
                 /\ op.method = "GET"
                 /\ op.url.host = "api"
                 /\ op.query = op.args

\* listImages(1, 10001) has returned null with no request made
C10_TooManyPerPage ==
  /\ ops[1].kind = "listImages" /\ ops[1].args = <<1, 10001>>
  /\ ops[1].result = "null" /\ ops[1].nreq = 0

(***************************************************************************)
(* C11: when getUsageStats comes back absent (its fetch rejected, its      *)
(* response was not OK or its body did not parse), getFullListImages       *)
(* returns null in that step and has issued no listImages request.         *)
(***************************************************************************)
C11_NoPagesWithoutStats ==
  [][\A s \in Slots :
       (ops[s].phase = "stats" /\ ops'[s].net \in {"reject", "notok", "badbody"})
         => /\ ops'[s].phase = "done"
            /\ ops'[s].result = "null"
            /\ ops'[s].nreq = ops[s].nreq
            /\ ops'[s].pages = {}
            /\ ops'[s].query = <<>>]_vars

\* getFullListImages has returned null after its one request, for the stats
C11_StatsFailed ==
  /\ ops[1].kind = "getFullListImages" /\ ops[1].phase = "done"
  /\ ops[1].net = "notok" /\ ops[1].result = "null"
  /\ ops[1].nreq = 1 /\ ops[1].pages = {}

(***************************************************************************)
(* C12: getFullListImages is all-or-nothing: once one of its page calls    *)
(* has returned null or an envelope with success = false, whichever pages  *)
(* completed before it, the operation has returned null; and a list it     *)
(* returns holds every page it asked for.                                  *)
(***************************************************************************)
C12_AllPagesOrNull ==
  \A s \in Slots :
    LET op == ops[s]
    IN  op.kind = "getFullListImages" =>
          /\ (op.nreq > 1 /\ op.net # "") =>
                (op.phase = "done" /\ op.result = "null")
          /\ op.result = "list" =>
                /\ op.net = ""
                /\ op.pages = {}
                /\ Len(op.images) = (op.nreq - 1) * Len(ImagesOfPage(1))

\* of two pages the second completed first, then the first came back with
\* success = false: null
C12_LaterPageFailed ==
  /\ ops[1].kind = "getFullListImages" /\ ops[1].phase = "done"
  /\ ops[1].nreq = 3 /\ ops[1].pages = {1}
  /\ ops[1].net = "valid" /\ ~ops[1].success
  /\ ops[1].result = "null"

(***************************************************************************)
(* C13: in every reachable state, whatever strings the refresh responses   *)
(* carried, the token and the expiry are held together: the client's test  *)
(* of the one (`this.batchToken.token`) and of the other                   *)
(* (`this.batchToken.expiresAt`) agree.                                    *)
(***************************************************************************)
C13_TokenAndExpiryTogether ==
  Truthy(batchToken.token) <=> Truthy(batchToken.expiresAt)

\* the same of null alone: the two fields are null together
C13_NullTogether == batchToken.token.some <=> batchToken.expiresAt.some

(***************************************************************************)
(* C14: in every reachable state in which a token is held, requests equals *)
(* the number of batch-eligible calls that were started after the token    *)
(* was issued, dispatched a request bearing it, and have finished, under   *)
(* any interleaving of calls and refreshes.                                *)
(***************************************************************************)
C14_RequestsCountCallsMade ==
  Truthy(batchToken.token) => batchToken.requests = issue.made

\* the same for the tokens issued with a non-empty expiry
C14_CountWithExpiry ==
  issue.expiresAt # <<>> => C14_RequestsCountCallsMade

(***************************************************************************)
(* C16: for every valid UUID string u, of any version and with its         *)
(* hexadecimal digits in either case, decodeUUID(encodeUUID(u)) = u.       *)
(***************************************************************************)
C16_RoundTripIdentity ==
  \A s \in Slots :
    LET op == ops[s]
    IN  op.kind = "decodeUUID(encodeUUID)" =>
          (op.result = "value" /\ op.got = op.args)

(***************************************************************************)
(* C16, amended: for every valid UUID string u, decodeUUID(encodeUUID(u))  *)
(* is u with its hexadecimal digits in lower case: u itself exactly when u *)
(* has no upper-case digit.                                                *)
(***************************************************************************)
ToLowerCase(str) ==
  [i \in 1..Len(str) |-> IF str[i] >= 65 /\ str[i] <= 90 THEN str[i] + 32 ELSE str[i]]

C16_RoundTripLowerCase ==
  \A s \in Slots :
    LET op == ops[s]
    IN  op.kind = "decodeUUID(encodeUUID)" =>
          /\ op.result = "value"
          /\ op.got = <<ToLowerCase(op.args[1])>>
          /\ (op.got = op.args) <=> (\A i \in 1..36 : op.args[1][i] \notin 65..90)

\* fbFbFbFb-FbFb-... has come back as fbfbfbfb-fbfb-...
C16_UpperCaseLowered ==
  /\ ops[1].kind = "decodeUUID(encodeUUID)"
  /\ ops[1].args = <<UuidOf(98, 102, 70)>>
  /\ ops[1].got = <<UuidOf(98, 102, 102)>>

WellFormedUuid(u) ==
  LET h == Strip(u, 45)
  IN  Len(h) = 32 /\ \A i \in 1..32 : IsHex(h[i])

C18_EncodeRejectsMalformed ==
  \A s \in Slots :
    LET op == ops[s]
    IN  op.kind = "encodeUUID" =>
          (op.result = "throw" <=> ~WellFormedUuid(op.args[1]))

\* encodeUUID returns for every string
C18_EncodeAlwaysReturns ==
  \A s \in Slots : ops[s].kind = "encodeUUID" => ops[s].result = "value"

(***************************************************************************)
(* C15: token, expiresAt and requests change only when a refreshBatchToken *)
(* returns true (to the pair it was given, requests 0) and when the        *)
(* bookkeeping of a batch-eligible operation runs (requests + 1, or all    *)
(* cleared); no step of listImages, getUsageStats, getFullListImages,      *)
(* getBaseImage, isValidCustomId, encodeUUID or decodeUUID changes them,   *)
(* and no step changes the configuration.                                  *)
(***************************************************************************)
FrameKinds ==
  {"listImages", "getUsageStats", "getFullListImages", "getBaseImage"} \cup PureKinds

C19_BookkeepingCountsOrRetires ==
  [][\A s \in Slots :
       (BookkeepingRuns(s) /\ Truthy(batchToken.token)) =>
         \/ batchToken' = [batchToken EXCEPT !.requests = @ + 1]
         \/ batchToken' = EmptyToken]_vars

\* the same while the expiry held with the token is not empty
C19_CountsOrRetiresWithExpiry ==
  [][\A s \in Slots :
       (BookkeepingRuns(s) /\ Truthy(batchToken.token) /\ Truthy(batchToken.expiresAt)) =>
         \/ batchToken' = [batchToken EXCEPT !.requests = @ + 1]
         \/ batchToken' = EmptyToken]_vars

(***************************************************************************)
(* C20: when getUsageStats reported the count T and no page call failed,   *)
(* getFullListImages has issued exactly ceil(T / 10000) listImages calls   *)
(* with perPage 10000, the i-th for page i, and the list it returns holds  *)
(* the images of every page once, each page's images together and in       *)
(* their order, in whatever order the pages came back; for T = 0 it issues *)
(* no page call and returns the empty list.                                *)
(***************************************************************************)
C20_EveryPageOnce ==
  \A s \in Slots :
    LET op == ops[s]
        T == op.args[1]
        n == (T + 9999) \div 10000
        k == Len(ImagesOfPage(1))
    IN  (op.kind = "getFullListImages" /\ op.args # <<>> /\ op.net = "") =>
          /\ op.nreq = 1 + n
          /\ op.query = [i \in 1..n |-> <<i, 10000>>]
          /\ T = 0 => (op.phase = "done" /\ op.result = "list" /\ op.images = <<>>)
          /\ op.phase = "done" =>
               /\ op.result = "list"
               /\ Len(op.images) = k * n
               /\ \A p \in 1..n :
                    \E j \in 0..(n - 1) :
                      SubSeq(op.images, k * j + 1, k * j + k) = ImagesOfPage(p)

\* of two pages the second came back first: its images come first
C20_SecondPageFirst ==
  /\ ops[1].kind = "getFullListImages" /\ ops[1].result = "list"
  /\ ops[1].args = <<10001>>
  /\ ops[1].images = ImagesOfPage(2) \o ImagesOfPage(1)

(***************************************************************************)
(* C21: no request is dispatched bearing the batch token at a time later   *)
(* than the expiry stored with that token, in sequential use and under any *)
(* interleaving.                                                           *)
(***************************************************************************)
\* caller s dispatches a request bearing the batch token in this step
DispatchesWithToken(s) ==
  /\ ops[s].phase # "fetch"
  /\ ops'[s].phase = "fetch"
  /\ ops'[s].kind \in BatchKinds
  /\ ops'[s].cred # config.apiKey

C21_NoRequestPastExpiry ==
  [][\A s \in Slots :
       DispatchesWithToken(s) => ~PastExpiry(batchToken, now)]_vars

=============================================================================
